---- MODULE Spec2Model ----
(***************************************************************************)
(* The forward graph built by build_model (src/model.py) and its three     *)
(* hand-written feature lambdas.                                           *)
(*                                                                         *)
(* A tensor is a record [dims, data, rng]: dims is its shape, data its     *)
(* elements in row-major (C) order, rng the interval its values lie in.    *)
(* Indices are 0-based as in the source; data[k + 1] is flat element k.    *)
(*                                                                         *)
(* Elements of the constant features are numbers.  Every other element is  *)
(* the set of input cells it is computed from: a moved element (pad,       *)
(* slice, reshape, tile, permute, concatenate, dropout) keeps its set, a   *)
(* sum, Dense, Conv1D or LSTM output unions the sets of the elements it    *)
(* reads.  For reduce_sum over distinct cells the set is the sum's list of *)
(* summands.                                                               *)
(***************************************************************************)
EXTENDS Integers, Sequences, FiniteSets

\* ---------------------------------------------------------------- sizes
MaxB == 2
MaxT == 2
OCTAVE == 2
NUM_OCTAVES == 2
NUM_NOTES == OCTAVE * NUM_OCTAVES
NUM_STYLES == 1
STYLE_UNITS == 1
BEAT_UNITS == 1
OCTAVE_UNITS == 1
TIME_AXIS_UNITS == 1
TIME_AXIS_LAYERS == 2
NOTE_AXIS_UNITS == 2
NOTE_AXIS_LAYERS == 2

\* ---------------------------------------------------------------- tensors
RECURSIVE Prod(_)
Prod(s) == IF s = <<>> THEN 1 ELSE Head(s) * Prod(Tail(s))

Size(dims) == Prod(dims)

\* row-major stride of axis i (1-based axis number)
Stride(dims, i) == Prod(SubSeq(dims, i + 1, Len(dims)))

\* flat offset of an index tuple, and back
Ravel(dims, idx) ==
    LET RECURSIVE Sum(_)
        Sum(i) == IF i = 0 THEN 0 ELSE idx[i] * Stride(dims, i) + Sum(i - 1)
    IN Sum(Len(dims))

Unravel(dims, k) == [i \in 1..Len(dims) |-> (k \div Stride(dims, i)) % dims[i]]

At(t, idx) == t.data[Ravel(t.dims, idx) + 1]

MkTensor(dims, rng, F(_)) ==
    [dims |-> dims, rng |-> rng,
     data |-> [k \in 1..Size(dims) |-> F(Unravel(dims, k - 1))]]

NoTensor == [dims |-> <<>>, rng |-> "none", data |-> <<>>]

\* an input cell; beat and style cells have no note index (n = 0)
Cell(name, b, t, n, c) == <<name, b, t, n, c>>

\* value intervals: "U" = [0,1], "S" = [-1,1], "R" = all reals
Hull(r1, r2) == IF r1 = r2 THEN r1
                ELSE IF {r1, r2} = {"U", "S"} THEN "S" ELSE "R"

\* tf.reshape: same flat data, new shape
TfReshape(t, dims) == [dims |-> dims, rng |-> t.rng, data |-> t.data]

\* tf.tile: axis i repeated mult[i] times
TfTile(t, mult) ==
    MkTensor([i \in 1..Len(t.dims) |-> t.dims[i] * mult[i]], t.rng,
             LAMBDA idx : At(t, [i \in 1..Len(t.dims) |-> idx[i] % t.dims[i]]))

\* a Permute that leaves the axes where they are
Permute213_Identity(t) == t

\* keras Permute((2, 1, 3)) on a rank-4 tensor: axes 1 and 2 swapped
Permute213(t) ==
    MkTensor(<<t.dims[1], t.dims[3], t.dims[2], t.dims[4]>>, t.rng,
             LAMBDA idx : At(t, <<idx[1], idx[3], idx[2], idx[4]>>))

\* ---------------------------------------------------------------- features
\* util.one_hot(i, n): length-n vector, 1 at i
one_hot(i, n) == [k \in 1..n |-> IF k - 1 = i THEN 1 ELSE 0]

\* each position repeated B * time_steps times in a row (a repeat, not a tile)
pitch_pos_in_f_Repeat(time_steps, x) ==
    LET reps == x.dims[1] * time_steps
    IN [dims |-> <<x.dims[1], time_steps, NUM_NOTES, 1>>, rng |-> "U",
        data |-> [k \in 1..(reps * NUM_NOTES) |-> <<(k - 1) \div reps, NUM_NOTES>>]]

\* tf.range(NUM_NOTES) / NUM_NOTES: element i is the fraction <<i, NUM_NOTES>>
pitch_pos_in_f(time_steps, x) ==
    LET B == x.dims[1]
        note_ranges == [dims |-> <<NUM_NOTES>>, rng |-> "U",
                        data |-> [k \in 1..NUM_NOTES |-> <<k - 1, NUM_NOTES>>]]
        repeated_ranges == TfTile(note_ranges, <<B * time_steps>>)
    IN TfReshape(repeated_ranges, <<B, time_steps, NUM_NOTES, 1>>)

\* the pitch class taken of n + 1
pitch_class_in_f_OffByOne(time_steps, x) ==
    LET pitch_class_matrix ==
            MkTensor(<<NUM_NOTES, OCTAVE>>, "U",
                     LAMBDA idx : one_hot((idx[1] + 1) % OCTAVE, OCTAVE)[idx[2] + 1])
        reshaped == TfReshape(pitch_class_matrix, <<1, 1, NUM_NOTES, OCTAVE>>)
    IN TfTile(reshaped, <<x.dims[1], time_steps, 1, 1>>)

pitch_class_in_f(time_steps, x) ==
    LET B == x.dims[1]
        pitch_class_matrix ==
            MkTensor(<<NUM_NOTES, OCTAVE>>, "U",
                     LAMBDA idx : one_hot(idx[1] % OCTAVE, OCTAVE)[idx[2] + 1])
        reshaped == TfReshape(pitch_class_matrix, <<1, 1, NUM_NOTES, OCTAVE>>)
    IN TfTile(reshaped, <<B, time_steps, 1, 1>>)

\* x[:, :, i::OCTAVE, 0]
StridedPlayed(x, i) ==
    MkTensor(<<x.dims[1], x.dims[2], (x.dims[3] - i + OCTAVE - 1) \div OCTAVE>>, x.rng,
             LAMBDA idx : At(x, <<idx[1], idx[2], i + idx[3] * OCTAVE, 0>>))

\* tf.reduce_sum(list of OCTAVE slices, axis=3): the list is stacked on a new
\* axis 0, so the result has shape (OCTAVE, B, T)
ReduceSumStack(x) ==
    MkTensor(<<OCTAVE, x.dims[1], x.dims[2]>>, "R",
             LAMBDA idx :
                LET s == StridedPlayed(x, idx[1])
                IN UNION {At(s, <<idx[2], idx[3], k>>) : k \in 0..(s.dims[3] - 1)})

pitch_bins_f(time_steps, x) ==
    LET B == x.dims[1]
        bins == ReduceSumStack(x)
        tiled == TfTile(bins, <<NUM_OCTAVES, 1, 1>>)
    IN TfReshape(tiled, <<B, time_steps, NUM_NOTES, 1>>)

\* ---------------------------------------------------------------- layers
\* a Lambda whose output is a constant of the graph: no element reads an input
Constant(t) == [dims |-> t.dims, rng |-> t.rng, data |-> [k \in DOMAIN t.data |-> {}]]

Width(t) == t.dims[Len(t.dims)]

\* all elements of t that share the index prefix pre (every axis but the last)
Channels(t, pre) == UNION {At(t, Append(pre, c)) : c \in 0..(Width(t) - 1)}

\* keras Dropout(rate): element-wise; survivors are scaled by 1 / (1 - rate)
DropoutL(rate, t) ==
    [dims |-> t.dims, rng |-> IF rate = 0 THEN t.rng ELSE "R", data |-> t.data]

\* keras Dense(units), linear: acts on the last axis
DenseL(units, t) ==
    LET pre == SubSeq(t.dims, 1, Len(t.dims) - 1)
        mixed == [k \in 1..Size(pre) |-> Channels(t, Unravel(pre, k - 1))]
    IN MkTensor(Append(pre, units), "R",
                LAMBDA idx : mixed[Ravel(pre, SubSeq(idx, 1, Len(pre))) + 1])

\* keras Activation(fn): element-wise
ActivationL(fn, t) ==
    [dims |-> t.dims, data |-> t.data,
     rng |-> IF fn = "sigmoid" THEN "U" ELSE IF fn = "tanh" THEN "S" ELSE t.rng]

\* TimeDistributed(Conv1D(units, 2 * OCTAVE, padding='same')) on (B, T, N, C):
\* a window of 2 * OCTAVE notes, OCTAVE - 1 before and OCTAVE after, per (b, t)
ConvL(units, t) ==
    LET K == 2 * OCTAVE
        left == (K - 1) \div 2
        Window(n) == {j \in (n - left)..(n - left + K - 1) : j >= 0 /\ j < t.dims[3]}
    IN MkTensor(<<t.dims[1], t.dims[2], t.dims[3], units>>, "R",
                LAMBDA idx : UNION {Channels(t, <<idx[1], idx[2], j>>) : j \in Window(idx[3])})

\* TimeDistributed(RepeatVector(n)) on (B, T, C): (B, T, n, C)
RepeatL(n, t) ==
    MkTensor(<<t.dims[1], t.dims[2], n, t.dims[3]>>, t.rng,
             LAMBDA idx : At(t, <<idx[1], idx[2], idx[4]>>))

\* a bidirectional recurrent layer: every step reads the whole of axis 3
LSTML_Bidirectional(units, t) ==
    LET pre == SubSeq(t.dims, 1, 3)
    IN MkTensor(Append(pre, units), "S",
                LAMBDA idx : UNION {Channels(t, <<idx[1], idx[2], k>>) : k \in 0..(t.dims[3] - 1)})

\* TimeDistributed(LSTM(units, return_sequences=True)) on (d1, d2, d3, C): one
\* forward LSTM per (i, j), stepping along axis 3 from index 0 upwards
LSTML(units, t) ==
    LET pre == SubSeq(t.dims, 1, 3)
        step == [k \in 1..Size(pre) |-> Channels(t, Unravel(pre, k - 1))]
        Upto(i, j, k) == UNION {step[Ravel(pre, <<i, j, kk>>) + 1] : kk \in 0..k}
        seen == [k \in 1..Size(pre) |->
                    LET p == Unravel(pre, k - 1) IN Upto(p[1], p[2], p[3])]
    IN MkTensor(Append(pre, units), "S",
                LAMBDA idx : seen[Ravel(pre, SubSeq(idx, 1, 3)) + 1])

\* Concatenate on the last axis
Concat2(a, b) ==
    MkTensor(Append(SubSeq(a.dims, 1, Len(a.dims) - 1), Width(a) + Width(b)),
             Hull(a.rng, b.rng),
             LAMBDA idx :
                LET c == idx[Len(idx)]
                    pre == SubSeq(idx, 1, Len(idx) - 1)
                IN IF c < Width(a) THEN At(a, Append(pre, c))
                   ELSE At(b, Append(pre, c - Width(a))))

RECURSIVE ConcatenateL(_)
ConcatenateL(ts) ==
    IF Len(ts) = 1 THEN ts[1]
    ELSE Concat2(ConcatenateL(SubSeq(ts, 1, Len(ts) - 1)), ts[Len(ts)])

\* the operands of a Concatenate agree on every axis but the last
ConcatShapesAgree(ts) ==
    \A i \in 1..Len(ts) :
        SubSeq(ts[i].dims, 1, Len(ts[i].dims) - 1) = SubSeq(ts[1].dims, 1, Len(ts[1].dims) - 1)

\* Add: element-wise
AddL(a, b) ==
    [dims |-> a.dims, rng |-> "R",
     data |-> [k \in DOMAIN a.data |-> a.data[k] \cup b.data[k]]]

\* a layer of a chain, and what it does to the tensor flowing through
Layer(op, arg) == [op |-> op, arg |-> arg]

Apply(layer, t) ==
    CASE layer.op = "Dropout" -> DropoutL(layer.arg, t)
      [] layer.op = "Dense" -> DenseL(layer.arg, t)
      [] layer.op \in {"tanh", "sigmoid"} -> ActivationL(layer.op, t)
      [] layer.op = "Conv1D" -> ConvL(layer.arg, t)
      [] layer.op = "RepeatVector" -> RepeatL(layer.arg, t)
      [] layer.op = "Permute" -> Permute213(t)
      [] layer.op = "LSTM" -> LSTML(layer.arg, t)

RECURSIVE Chain(_, _)
Chain(t, ls) == IF ls = <<>> THEN t ELSE Chain(Apply(Head(ls), t), Tail(ls))

\* the entries a chain adds to the model's layer list: the tensor it is applied
\* to (by its name in build_model) and the width it finds there
RECURSIVE Logged(_, _, _)
Logged(name, t, ls) ==
    IF ls = <<>> THEN <<>>
    ELSE <<[op |-> Head(ls).op, arg |-> Head(ls).arg, on |-> name, width |-> Width(t)]>>
         \o Logged(name, Apply(Head(ls), t), Tail(ls))

\* ---------------------------------------------------------------- build_model
VARIABLES
    time_steps, input_dropout, dropout,        \* build_model's arguments
    notes_in, beat_in, style_in, chosen_in,    \* the four Inputs
    notes, beat, chosen, style,                \* the tensors of the same names
    note_octave,
    pitch_pos, pitch_class, pitch_bins,        \* the outputs of the three Lambdas
    note_features, x, style_proj, shift_chosen, notes_out,
    l,                                         \* the loop variable of both stacks
    layers,                                    \* the layers applied so far, in order
    shape_ok,                                  \* no Concatenate or Add has rejected its operands
    pc

vars == <<time_steps, input_dropout, dropout, notes_in, beat_in, style_in, chosen_in,
          notes, beat, chosen, style, note_octave, pitch_pos, pitch_class, pitch_bins,
          note_features, x, style_proj, shift_chosen, notes_out, l, layers, shape_ok, pc>>

args == <<time_steps, input_dropout, dropout, notes_in, beat_in, style_in, chosen_in>>

\* Input(shape) for a batch of B: every element is its own cell
InputNotes(name, B, T) ==
    MkTensor(<<B, T, NUM_NOTES, 2>>, "R", LAMBDA idx : {Cell(name, idx[1], idx[2], idx[3], idx[4])})

InputSeq(name, B, T, C) ==
    MkTensor(<<B, T, C>>, "R", LAMBDA idx : {Cell(name, idx[1], idx[2], 0, idx[3])})

Init ==
    /\ time_steps \in 1..MaxT
    /\ input_dropout \in {0, 2}       \* rates in tenths: disabled, or the default 0.2
    /\ dropout \in {0, 5}             \* disabled, or the default 0.5
    /\ \E B \in 1..MaxB :
        /\ notes_in = InputNotes("notes", B, time_steps)
        /\ beat_in = InputSeq("beat", B, time_steps, 2)
        /\ style_in = InputSeq("style", B, time_steps, NUM_STYLES)
        /\ chosen_in = InputNotes("chosen", B, time_steps)
    /\ notes = NoTensor /\ beat = NoTensor /\ chosen = NoTensor /\ style = NoTensor
    /\ note_octave = NoTensor
    /\ pitch_pos = NoTensor /\ pitch_class = NoTensor /\ pitch_bins = NoTensor
    /\ note_features = NoTensor /\ x = NoTensor /\ style_proj = NoTensor
    /\ shift_chosen = NoTensor /\ notes_out = NoTensor
    /\ l = 0
    /\ layers = <<>>
    /\ shape_ok = TRUE
    /\ pc = "inputs"

\* lines 56-59
InputDropoutLayers == <<Layer("Dropout", input_dropout)>>

InputDropout ==
    /\ pc = "inputs"
    /\ notes' = Chain(notes_in, InputDropoutLayers)
    /\ beat' = Chain(beat_in, InputDropoutLayers)
    /\ chosen' = Chain(chosen_in, InputDropoutLayers)
    /\ style' = Chain(style_in, InputDropoutLayers)
    /\ layers' = layers \o Logged("notes", notes_in, InputDropoutLayers)
                        \o Logged("beat", beat_in, InputDropoutLayers)
                        \o Logged("chosen", chosen_in, InputDropoutLayers)
                        \o Logged("style", style_in, InputDropoutLayers)
    /\ pc' = "style"
    /\ UNCHANGED <<args, note_octave, pitch_pos, pitch_class, pitch_bins, note_features,
                   x, style_proj, shift_chosen, notes_out, l, shape_ok>>

\* lines 62-63
StyleEmbeddingLayers == <<Layer("Dense", STYLE_UNITS), Layer("Dropout", dropout)>>

StyleEmbedding ==
    /\ pc = "style"
    /\ style' = Chain(style, StyleEmbeddingLayers)
    /\ layers' = layers \o Logged("style", style, StyleEmbeddingLayers)
    /\ pc' = "beat"
    /\ UNCHANGED <<args, notes, beat, chosen, note_octave, pitch_pos, pitch_class,
                   pitch_bins, note_features, x, style_proj, shift_chosen, notes_out,
                   l, shape_ok>>

\* the beat embedding without its activation
BeatEmbeddingLayers_Linear == <<Layer("Dense", BEAT_UNITS), Layer("Dropout", dropout)>>

\* lines 65-67
BeatEmbeddingLayers ==
    <<Layer("Dense", BEAT_UNITS), Layer("tanh", 0), Layer("Dropout", dropout)>>

BeatEmbedding ==
    /\ pc = "beat"
    /\ beat' = Chain(beat, BeatEmbeddingLayers)
    /\ layers' = layers \o Logged("beat", beat, BeatEmbeddingLayers)
    /\ pc' = "octave"
    /\ UNCHANGED <<args, notes, chosen, style, note_octave, pitch_pos, pitch_class,
                   pitch_bins, note_features, x, style_proj, shift_chosen, notes_out,
                   l, shape_ok>>

\* lines 71-73
NoteOctaveLayers ==
    <<Layer("Conv1D", OCTAVE_UNITS), Layer("tanh", 0), Layer("Dropout", dropout)>>

NoteOctave ==
    /\ pc = "octave"
    /\ note_octave' = Chain(notes, NoteOctaveLayers)
    /\ layers' = layers \o Logged("note_octave", notes, NoteOctaveLayers)
    /\ pc' = "lambdas"
    /\ UNCHANGED <<args, notes, beat, chosen, style, pitch_pos, pitch_class,
                   pitch_bins, note_features, x, style_proj, shift_chosen, notes_out,
                   l, shape_ok>>

\* lines 77-79: the three Lambda layers, each applied to notes
FeatureLambdas ==
    /\ pc = "lambdas"
    /\ pitch_pos' = pitch_pos_in_f(time_steps, notes)
    /\ pitch_class' = pitch_class_in_f(time_steps, notes)
    /\ pitch_bins' = pitch_bins_f(time_steps, notes)
    /\ layers' = layers \o <<[op |-> "Lambda", arg |-> 0, on |-> "pitch_pos", width |-> Width(notes)],
                             [op |-> "Lambda", arg |-> 0, on |-> "pitch_class", width |-> Width(notes)],
                             [op |-> "Lambda", arg |-> 0, on |-> "pitch_bins", width |-> Width(notes)]>>
    /\ pc' = "features"
    /\ UNCHANGED <<args, notes, beat, chosen, style, note_octave, note_features, x,
                   style_proj, shift_chosen, notes_out, l, shape_ok>>

\* lines 76-84: the operands of the Concatenate, in the order of the list
BeatRepeatLayers == <<Layer("RepeatVector", NUM_NOTES)>>

FeatureOperands ==
    <<Constant(pitch_pos), Constant(pitch_class), pitch_bins, note_octave,
      Chain(beat, BeatRepeatLayers)>>

NoteFeatures ==
    /\ pc = "features"
    /\ shape_ok' = ConcatShapesAgree(FeatureOperands)
    /\ IF shape_ok'
       THEN /\ note_features' = ConcatenateL(FeatureOperands)
            /\ x' = note_features'
            /\ layers' = layers \o Logged("beat", beat, BeatRepeatLayers)
                    \o <<[op |-> "Concatenate", arg |-> 0, on |-> "note_features",
                          width |-> Width(note_features')]>>
            /\ pc' = "permute"
       ELSE /\ pc' = "error"
            /\ UNCHANGED <<note_features, x, layers>>
    /\ UNCHANGED <<args, notes, beat, chosen, style, note_octave, pitch_pos, pitch_class,
                   pitch_bins, style_proj, shift_chosen, notes_out, l>>

\* line 87
PermuteLayers == <<Layer("Permute", 0)>>

PermuteIn ==
    /\ pc = "permute"
    /\ x' = Chain(x, PermuteLayers)
    /\ layers' = layers \o Logged("x", x, PermuteLayers)
    /\ l' = 0
    /\ pc' = "time_style"
    /\ UNCHANGED <<args, notes, beat, chosen, style, note_octave, pitch_pos, pitch_class,
                   pitch_bins, note_features, style_proj, shift_chosen, notes_out, shape_ok>>

\* the projection sized to the recurrent units, whatever x is
StyleProjUnits_Fixed(t) == TIME_AXIS_UNITS

\* lines 92 and 116: int(x.get_shape()[3])
StyleProjUnits(t) == t.dims[4]

\* lines 92-96
TimeStyleLayers ==
    <<Layer("Dense", StyleProjUnits(x)), Layer("tanh", 0), Layer("Dropout", dropout),
      Layer("RepeatVector", NUM_NOTES), Layer("Permute", 0)>>

TimeStyle ==
    /\ pc = "time_style"
    /\ style_proj' = Chain(style, TimeStyleLayers)
    /\ layers' = layers \o Logged("style_proj", style, TimeStyleLayers)
    /\ pc' = "time_add"
    /\ UNCHANGED <<args, notes, beat, chosen, style, note_octave, pitch_pos, pitch_class,
                   pitch_bins, note_features, x, shift_chosen, notes_out, l, shape_ok>>

\* lines 97 and 120: Add()([x, style_proj])
AddStyle(next) ==
    /\ shape_ok' = (x.dims = style_proj.dims)
    /\ IF shape_ok'
       THEN /\ x' = AddL(x, style_proj)
            /\ layers' = Append(layers, [op |-> "Add", arg |-> Width(style_proj),
                                         on |-> "x", width |-> Width(x)])
            /\ pc' = next
       ELSE /\ pc' = "error"
            /\ UNCHANGED <<x, layers>>
    /\ UNCHANGED <<args, notes, beat, chosen, style, note_octave, pitch_pos, pitch_class,
                   pitch_bins, note_features, style_proj, shift_chosen, notes_out, l>>

TimeAdd ==
    /\ pc = "time_add"
    /\ AddStyle("time_lstm")

\* lines 99-100
TimeLSTMLayers == <<Layer("LSTM", TIME_AXIS_UNITS), Layer("Dropout", dropout)>>

TimeLSTM ==
    /\ pc = "time_lstm"
    /\ x' = Chain(x, TimeLSTMLayers)
    /\ layers' = layers \o Logged("x", x, TimeLSTMLayers)
    /\ l' = l + 1
    /\ pc' = IF l + 1 < TIME_AXIS_LAYERS THEN "time_style" ELSE "permute_back"
    /\ UNCHANGED <<args, notes, beat, chosen, style, note_octave, pitch_pos, pitch_class,
                   pitch_bins, note_features, style_proj, shift_chosen, notes_out, shape_ok>>

\* line 103
PermuteBack ==
    /\ pc = "permute_back"
    /\ x' = Chain(x, PermuteLayers)
    /\ layers' = layers \o Logged("x", x, PermuteLayers)
    /\ pc' = "shift"
    /\ UNCHANGED <<args, notes, beat, chosen, style, note_octave, pitch_pos, pitch_class,
                   pitch_bins, note_features, style_proj, shift_chosen, notes_out, l,
                   shape_ok>>

\* the shift done the other way: tf.pad(x[:, :, 1:, :], [[0, 0], [0, 0], [0, 1], [0, 0]])
ShiftLambda_Left(t) ==
    MkTensor(t.dims, t.rng,
             LAMBDA idx : IF idx[3] + 1 < t.dims[3]
                          THEN At(t, <<idx[1], idx[2], idx[3] + 1, idx[4]>>)
                          ELSE {})

\* line 107: tf.pad(x[:, :, :-1, :], [[0, 0], [0, 0], [1, 0], [0, 0]]); a padded
\* element is the constant 0
ShiftLambda(t) ==
    LET cut == MkTensor(<<t.dims[1], t.dims[2], t.dims[3] - 1, t.dims[4]>>, t.rng,
                        LAMBDA idx : At(t, idx))
    IN MkTensor(<<cut.dims[1], cut.dims[2], cut.dims[3] + 1, cut.dims[4]>>, cut.rng,
                LAMBDA idx : IF idx[3] < 1 THEN {}
                             ELSE At(cut, <<idx[1], idx[2], idx[3] - 1, idx[4]>>))

\* line 110: Reshape((time_steps, NUM_NOTES, -1)); the batch axis is kept and
\* -1 is what remains of the size
KerasReshape(t) ==
    TfReshape(t, <<t.dims[1], time_steps, NUM_NOTES,
                   Size(t.dims) \div (t.dims[1] * time_steps * NUM_NOTES)>>)

\* lines 107-110
ShiftChosen ==
    /\ pc = "shift"
    /\ shift_chosen' = KerasReshape(ShiftLambda(chosen))
    /\ layers' = layers \o <<[op |-> "Lambda", arg |-> 0, on |-> "shift_chosen",
                              width |-> Width(chosen)],
                             [op |-> "Reshape", arg |-> 0, on |-> "shift_chosen",
                              width |-> Width(chosen)]>>
    /\ pc' = "concat"
    /\ UNCHANGED <<args, notes, beat, chosen, style, note_octave, pitch_pos, pitch_class,
                   pitch_bins, note_features, x, style_proj, notes_out, l, shape_ok>>

\* line 112
ConcatChosen ==
    /\ pc = "concat"
    /\ shape_ok' = ConcatShapesAgree(<<x, shift_chosen>>)
    /\ IF shape_ok'
       THEN /\ x' = ConcatenateL(<<x, shift_chosen>>)
            /\ layers' = Append(layers, [op |-> "Concatenate", arg |-> 0, on |-> "x",
                                         width |-> Width(x')])
            /\ l' = 0
            /\ pc' = "note_style"
       ELSE /\ pc' = "error"
            /\ UNCHANGED <<x, layers, l>>
    /\ UNCHANGED <<args, notes, beat, chosen, style, note_octave, pitch_pos, pitch_class,
                   pitch_bins, note_features, style_proj, shift_chosen, notes_out>>

\* lines 116-119
NoteStyleLayers ==
    <<Layer("Dense", StyleProjUnits(x)), Layer("tanh", 0), Layer("Dropout", dropout),
      Layer("RepeatVector", NUM_NOTES)>>

NoteStyle ==
    /\ pc = "note_style"
    /\ style_proj' = Chain(style, NoteStyleLayers)
    /\ layers' = layers \o Logged("style_proj", style, NoteStyleLayers)
    /\ pc' = "note_add"
    /\ UNCHANGED <<args, notes, beat, chosen, style, note_octave, pitch_pos, pitch_class,
                   pitch_bins, note_features, x, shift_chosen, notes_out, l, shape_ok>>

NoteAdd ==
    /\ pc = "note_add"
    /\ AddStyle("note_lstm")

\* lines 122-123
NoteLSTMLayers == <<Layer("LSTM", NOTE_AXIS_UNITS), Layer("Dropout", dropout)>>

NoteLSTM ==
    /\ pc = "note_lstm"
    /\ x' = Chain(x, NoteLSTMLayers)
    /\ layers' = layers \o Logged("x", x, NoteLSTMLayers)
    /\ l' = l + 1
    /\ pc' = IF l + 1 < NOTE_AXIS_LAYERS THEN "note_style" ELSE "out"
    /\ UNCHANGED <<args, notes, beat, chosen, style, note_octave, pitch_pos, pitch_class,
                   pitch_bins, note_features, style_proj, shift_chosen, notes_out, shape_ok>>

\* the output projection without its activation
NoteOutLayers_Linear == <<Layer("Dense", 2)>>

\* line 126: Dense(2, activation='sigmoid')
NoteOutLayers == <<Layer("Dense", 2), Layer("sigmoid", 0)>>

NoteOut ==
    /\ pc = "out"
    /\ notes_out' = Chain(x, NoteOutLayers)
    /\ layers' = layers \o Logged("notes_out", x, NoteOutLayers)
    /\ pc' = "done"
    /\ UNCHANGED <<args, notes, beat, chosen, style, note_octave, pitch_pos, pitch_class,
                   pitch_bins, note_features, x, style_proj, shift_chosen, l, shape_ok>>

Next ==
    \/ InputDropout
    \/ StyleEmbedding
    \/ BeatEmbedding
    \/ NoteOctave
    \/ FeatureLambdas
    \/ NoteFeatures
    \/ PermuteIn
    \/ TimeStyle
    \/ TimeAdd
    \/ TimeLSTM
    \/ PermuteBack
    \/ ShiftChosen
    \/ ConcatChosen
    \/ NoteStyle
    \/ NoteAdd
    \/ NoteLSTM
    \/ NoteOut

Spec == Init /\ [][Next]_vars

\* ---------------------------------------------------------------- properties
B == notes_in.dims[1]
Bs == 0..(B - 1)
Ts == 0..(time_steps - 1)
Ns == 0..(NUM_NOTES - 1)

\* the played cells of notes at (b, t) in the pitch class of note n
PlayedInClass(b, t, n) ==
    UNION {At(notes, <<b, t, j, 0>>) : j \in {k \in Ns : k % OCTAVE = n % OCTAVE}}

\* C1: at every (b, t, n) the pitch-bin feature is the sum of the played channel
\* of notes at the same (b, t) over the notes of n's pitch class, so it is the
\* same at n and n + OCTAVE.
C1_PitchBinsSumPitchClass ==
    pitch_bins # NoTensor =>
        /\ pitch_bins.dims = <<B, time_steps, NUM_NOTES, 1>>
        /\ \A b \in Bs, t \in Ts, n \in Ns :
            /\ At(pitch_bins, <<b, t, n, 0>>) = PlayedInClass(b, t, n)
            /\ n + OCTAVE \in Ns =>
                 At(pitch_bins, <<b, t, n, 0>>) = At(pitch_bins, <<b, t, n + OCTAVE, 0>>)

C3_StrictlyCausal ==
    pc = "done" =>
        \A b \in Bs, t \in Ts, i \in Ns, c \in 0..1 :
            \A s \in At(notes_out, <<b, t, i, c>>) : s[1] = "chosen" => s[4] < i

C3_Witness ==
    /\ pc = "done"
    /\ B = MaxB /\ time_steps = MaxT
    /\ Cell("chosen", 0, 0, NUM_NOTES - 2, 1) \in At(notes_out, <<0, 0, NUM_NOTES - 1, 0>>)
    /\ Cell("chosen", 0, 0, 0, 0) \in At(notes_out, <<0, 0, 1, 1>>)

\* C4: no Concatenate or Add is handed operands of disagreeing shapes, and the
\* graph ends in notes_out of shape (B, T, NUM_NOTES, 2) with values in [0, 1].
C4_ShapeAndRange ==
    /\ shape_ok
    /\ pc # "error"
    /\ pc = "done" =>
        /\ notes_out.dims = <<B, time_steps, NUM_NOTES, 2>>
        /\ notes_out.rng = "U"

C4_Witness ==
    /\ pc = "done"
    /\ B = MaxB /\ time_steps = MaxT
    /\ dropout = 5 /\ input_dropout = 2
    /\ notes_out.dims = <<MaxB, MaxT, NUM_NOTES, 2>>
    /\ Len(SelectSeq(layers, LAMBDA e : e.op \in {"Add", "Concatenate"}))
         = TIME_AXIS_LAYERS + NOTE_AXIS_LAYERS + 2

\* C5: at every (b, t, i) the pitch-class feature is the length-OCTAVE vector
\* that is 1 at i mod OCTAVE and 0 elsewhere, so it is the same at i and
\* i + OCTAVE.
C5_PitchClassOneHot ==
    pitch_class # NoTensor =>
        /\ pitch_class.dims = <<B, time_steps, NUM_NOTES, OCTAVE>>
        /\ \A b \in Bs, t \in Ts, i \in Ns, k \in 0..(OCTAVE - 1) :
            /\ At(pitch_class, <<b, t, i, k>>) = (IF k = i % OCTAVE THEN 1 ELSE 0)
            /\ i + OCTAVE \in Ns =>
                 At(pitch_class, <<b, t, i, k>>) = At(pitch_class, <<b, t, i + OCTAVE, k>>)

C5_Witness ==
    /\ pc = "features"
    /\ B = MaxB /\ time_steps = MaxT
    /\ At(pitch_class, <<B - 1, time_steps - 1, NUM_NOTES - 1, OCTAVE - 1>>) = 1
    /\ At(pitch_class, <<B - 1, time_steps - 1, OCTAVE, 0>>) = 1

\* C6: at every (b, t, i) the pitch-position feature is i / NUM_NOTES, whatever
\* b and t are.
C6_PitchPos ==
    pitch_pos # NoTensor =>
        /\ pitch_pos.dims = <<B, time_steps, NUM_NOTES, 1>>
        /\ \A b \in Bs, t \in Ts, i \in Ns :
             At(pitch_pos, <<b, t, i, 0>>) = <<i, NUM_NOTES>>

C6_Witness ==
    /\ pc = "features"
    /\ B = MaxB /\ time_steps = MaxT
    /\ At(pitch_pos, <<B - 1, time_steps - 1, NUM_NOTES - 1, 0>>) = <<NUM_NOTES - 1, NUM_NOTES>>

\* the style injection that ends in the Add at position j of the layer list:
\* Dense to the width of the tensor added to, tanh, Dropout, RepeatVector over
\* the NUM_NOTES note slots (then, in the time-axis stack, the Permute that lays
\* it out like x), each applied to style_proj
InjectionBefore(j) ==
    LET p == IF j > 1 /\ layers[j - 1].op = "Permute" THEN j - 2 ELSE j - 1
    IN /\ p >= 4
       /\ \A k \in (p - 3)..(j - 1) : layers[k].on = "style_proj"
       /\ layers[p - 3].op = "Dense" /\ layers[p - 3].arg = layers[j].width
       /\ layers[p - 2].op = "tanh"
       /\ layers[p - 1].op = "Dropout" /\ layers[p - 1].arg = dropout
       /\ layers[p].op = "RepeatVector" /\ layers[p].arg = NUM_NOTES

\* C7: in both stacks every recurrent layer is preceded by a style injection
\* (project to the width of x, nonlinearity, dropout, broadcast over the note
\* slots, add) and followed by dropout, and the projection always has the
\* shape of the tensor it is added to.
C7_StyleInjectedPerLayer ==
    /\ pc \in {"time_add", "note_add"} => style_proj.dims = x.dims
    /\ pc \in {"time_lstm", "note_lstm"} =>
         layers[Len(layers)].op = "Add" /\ InjectionBefore(Len(layers))
    /\ \A k \in 1..Len(layers) :
        /\ layers[k].op = "Add" => layers[k].arg = layers[k].width
        /\ layers[k].op = "LSTM" =>
            /\ k > 1 /\ layers[k - 1].op = "Add" /\ layers[k - 1].on = "x"
            /\ InjectionBefore(k - 1)
            /\ k < Len(layers) /\ layers[k + 1].op = "Dropout" /\ layers[k + 1].on = "x"
    /\ pc = "done" =>
         Len(SelectSeq(layers, LAMBDA e : e.op = "LSTM")) = TIME_AXIS_LAYERS + NOTE_AXIS_LAYERS

C7_Witness ==
    /\ pc = "done"
    /\ \E k \in 1..Len(layers) :
        /\ layers[k].op = "LSTM" /\ layers[k].arg = NOTE_AXIS_UNITS
        /\ layers[k - 1].width = TIME_AXIS_UNITS + 2
    /\ \E k \in 1..Len(layers) :
        /\ layers[k].op = "LSTM" /\ layers[k].arg = TIME_AXIS_UNITS
        /\ layers[k - 2].op = "Permute"

\* the layers applied to the tensor called name, in order
OpsOn(name) ==
    LET sel == SelectSeq(layers, LAMBDA e : e.on = name)
    IN [k \in 1..Len(sel) |-> sel[k].op]

IsPrefix(p, q) == Len(p) <= Len(q) /\ SubSeq(q, 1, Len(p)) = p

\* C8 as stated: style and beat each pass, after input dropout, through a Dense
\* layer that is followed by a nonlinearity.
C8_DenseThenNonlinearity ==
    \A k \in 1..Len(layers) :
        (layers[k].op = "Dense" /\ layers[k].on \in {"style", "beat"}) =>
            /\ k < Len(layers)
            /\ layers[k + 1].on = layers[k].on
            /\ layers[k + 1].op \in {"tanh", "sigmoid"}

\* C8 amended: after input dropout, beat passes through Dense, tanh and Dropout;
\* style passes through Dense and Dropout with no nonlinearity; both are embedded
\* before any later stage reads them.
C8_EmbeddingStage ==
    /\ pc \notin {"inputs", "style"} =>
         OpsOn("style") = <<"Dropout", "Dense", "Dropout">>
    /\ pc \notin {"inputs", "style", "beat"} =>
         IsPrefix(<<"Dropout", "Dense", "tanh", "Dropout">>, OpsOn("beat"))
    /\ \A k \in 1..Len(layers) :
         layers[k].on \in {"style_proj", "note_features"} =>
            /\ Len(SelectSeq(SubSeq(layers, 1, k), LAMBDA e : e.on = "style")) = 3
            /\ Len(SelectSeq(SubSeq(layers, 1, k), LAMBDA e : e.on = "beat")) >= 4

C8_Witness ==
    /\ pc = "done"
    /\ OpsOn("style") = <<"Dropout", "Dense", "Dropout">>
    /\ OpsOn("beat") = <<"Dropout", "Dense", "tanh", "Dropout", "RepeatVector">>
    /\ \E k \in 1..Len(layers) : layers[k].on = "style_proj"

\* what a stack of forward recurrent layers along time, run per note on
\* note_features with the style of each step added, reads at (b, t, n)
TimeStackReads(b, t, n) ==
    UNION {Channels(note_features, <<b, tt, n>>) \cup Channels(style, <<b, tt>>) : tt \in 0..t}

\* what a stack of forward recurrent layers along the note index, run per time
\* step on the time stack's output with shift_chosen appended and the style of
\* the step added, reads at (b, t, n)
NoteStackReads(b, t, n) ==
    UNION {TimeStackReads(b, t, nn) \cup Channels(shift_chosen, <<b, t, nn>>) : nn \in 0..n}

\* C9: throughout the time-axis stack x is laid out (batch, note, time,
\* features) and so is the style projection added to it, each recurrent layer
\* there recurs along time per note; x is back to (batch, time, note, features)
\* before shift_chosen is concatenated, and each note-axis recurrent layer recurs
\* along the note index upwards, per time step.
C9_AxisHandling ==
    /\ pc \in {"time_style", "time_add", "time_lstm", "permute_back"} =>
        /\ x.dims = <<B, NUM_NOTES, time_steps, Width(x)>>
        /\ pc = "time_add" =>
            /\ style_proj.dims = x.dims
            /\ \A b \in Bs, n \in Ns, t \in Ts, c \in 0..(Width(x) - 1) :
                 At(style_proj, <<b, n, t, c>>) = Channels(style, <<b, t>>)
        /\ pc \in {"time_style", "permute_back"} /\ l > 0 =>
             \A b \in Bs, n \in Ns, t \in Ts, c \in 0..(Width(x) - 1) :
                 At(x, <<b, n, t, c>>) = TimeStackReads(b, t, n)
    /\ pc \in {"shift", "concat"} =>
        /\ x.dims = <<B, time_steps, NUM_NOTES, TIME_AXIS_UNITS>>
        /\ \A b \in Bs, t \in Ts, n \in Ns, c \in 0..(Width(x) - 1) :
             At(x, <<b, t, n, c>>) = TimeStackReads(b, t, n)
    /\ pc \in {"note_style", "note_add", "note_lstm", "out", "done"} =>
        /\ x.dims = <<B, time_steps, NUM_NOTES, Width(x)>>
        /\ (pc \in {"note_style", "out", "done"} /\ l > 0) =>
             \A b \in Bs, t \in Ts, n \in Ns, c \in 0..(Width(x) - 1) :
                 At(x, <<b, t, n, c>>) = NoteStackReads(b, t, n)

C9_Witness ==
    /\ pc = "out"
    /\ B = MaxB /\ time_steps = MaxT
    /\ x.dims = <<MaxB, MaxT, NUM_NOTES, NOTE_AXIS_UNITS>>
    /\ At(x, <<0, 0, 0, 0>>) # At(x, <<0, 0, 1, 0>>)
    /\ At(x, <<0, 0, 0, 0>>) # At(x, <<0, time_steps - 1, 0, 0>>) \/ time_steps = 1

\* every cell in s is a cell of batch element b
OfBatch(s, b) == \A cell \in s : cell[2] = b

\* C10: every per-note feature at batch element b, and notes_out at batch
\* element b, is computed only from the inputs of batch element b.
C10_BatchIndependent ==
    /\ note_features # NoTensor =>
         \A b \in Bs, t \in Ts, n \in Ns, c \in 0..(Width(note_features) - 1) :
            OfBatch(At(note_features, <<b, t, n, c>>), b)
    /\ pc = "done" =>
         \A b \in Bs, t \in Ts, n \in Ns, c \in 0..1 :
            OfBatch(At(notes_out, <<b, t, n, c>>), b)

====
